---- MODULE Spec2Model ----
(***************************************************************************)
(* Model of the quiz page (src/pages/quiz.tsx), the Certificate component  *)
(* it imports (unnamed/part_018), the sitemap filter of the site           *)
(* configuration (unnamed/part_000),                                       *)
(* and classes of the documentation: CircuitBreaker, ConnectionPool and    *)
(* ResourceCache (docs/03-Tutorials/07-client-server-llm/README.md),       *)
(* RateLimiter (unnamed/part_012), SessionManager (unnamed/part_013) and   *)
(* executeToolWithRetry (docs/Appendix/troubleshooting.md).  Each is       *)
(* checked under a specification of its own, the others standing idle.     *)
(*                                                                         *)
(* JavaScript values are represented as follows.                           *)
(*   - A URL of the sitemap is a sequence of one-character strings and a   *)
(*     name of the certificate a sequence of UTF-16 code units, so that    *)
(*     String.prototype.includes and String.prototype.replace can be       *)
(*     computed position by position.                                      *)
(*   - An optional numeric property of the quiz result object is a set     *)
(*     holding at most one number: {} is "undefined" (and also NaN, which  *)
(*     only ever feeds the || operator here), {n} is the number n.         *)
(*   - null is the record Null for the quiz result and the string "null"   *)
(*     for the selected quiz.                                              *)
(***************************************************************************)
EXTENDS Integers, Sequences, FiniteSets

VARIABLES
    selectedQuiz,     \* Home: useState<QuizType | null>(null)
    quizResult,       \* Home: useState<any | null>(null)
    showCertificate,  \* Home: useState(false)
    certificate,      \* the mounted Certificate instance (its local state), if any
    pending,          \* handleDownload promise chains that have not settled yet
    downloads,        \* file names handed to link.click(), in order
    clicks,           \* number of clicks on 'Download Certificate' so far
    requests,         \* what the document has fetched on behalf of the flow
    defaultItems,     \* sitemap: what defaultCreateSitemapItems resolves to
    sitemap,          \* sitemap: what createSitemapItems resolves to
    sitemapPc,        \* sitemap: position of the createSitemapItems callback
    unmountedWidget,  \* an unmounted quiz widget still holds handleQuizComplete
    state,            \* CircuitBreaker: this.state
    failureCount,     \* CircuitBreaker: this.failureCount
    lastFailureTime,  \* CircuitBreaker: this.lastFailureTime, {} for null
    now,              \* CircuitBreaker: what Date.now() returns
    awaiting,         \* CircuitBreaker: execute calls suspended at the await,
                      \*   counted by the state in which they were admitted
    lastEvent,        \* CircuitBreaker: what the latest execute step did
    pool,             \* ConnectionPool: this.pool, the idle connections
    poolPending,      \* ConnectionPool: this.pending, the queued acquire calls
    inUse,            \* ConnectionPool: this.inUse
    acquirers,        \* ConnectionPool: where each acquire call stands
    givenTo,          \* ConnectionPool: the acquire call a connection was
                      \*   last added to inUse for (0: none)
    created,          \* ConnectionPool: connections factory.create() made
    destroyed,        \* ConnectionPool: connections given to factory.destroy
    clients,          \* RateLimiter: this.clients
    limiterReturned,  \* RateLimiter: what the latest isAllowed call returned
    accepted,         \* RateLimiter: per client, the times of the calls that
                      \*   returned true less than windowMs ago
    sessions,         \* SessionManager: this.sessions, in insertion order
    sessionIds,       \* SessionManager: session ids generated so far
    cache,            \* ResourceCache: this.cache, in insertion order
    recency,          \* ResourceCache: the stored keys, the one whose last
                      \*   get or set is oldest first
    retryPc,          \* executeToolWithRetry: where the call stands
    retryMax,         \* executeToolWithRetry: the argument maxRetries
    attempt,          \* executeToolWithRetry: the loop variable
    invocations,      \* executeToolWithRetry: calls of toolFunction so far
    outcomes,         \* executeToolWithRetry: how those calls settled
    waits,            \* executeToolWithRetry: the delays of the timers set
    retryResult       \* executeToolWithRetry: the value returned or thrown

pageVars == <<selectedQuiz, quizResult, showCertificate, certificate,
              pending, downloads, clicks, requests>>
sitemapVars == <<defaultItems, sitemap, sitemapPc>>
lateVars == <<unmountedWidget>>
breakerVars == <<state, failureCount, lastFailureTime, now, awaiting, lastEvent>>
poolVars == <<pool, poolPending, inUse, acquirers, givenTo, created, destroyed>>
limiterVars == <<clients, limiterReturned, accepted>>
\* the breaker's fields without the clock, which the classes below share
breakerFields == <<state, failureCount, lastFailureTime, awaiting, lastEvent>>
sessionVars == <<sessions, sessionIds>>
cacheVars == <<cache, recency>>
retryVars == <<retryPc, retryMax, attempt, invocations, outcomes, waits,
               retryResult>>
tutorialVars == <<poolVars, limiterVars, sessionVars, cacheVars, retryVars>>
vars == <<pageVars, sitemapVars, lateVars, breakerVars, tutorialVars>>

----------------------------------------------------------------------------
(* Bounds of the model *)

\* numberOfQuestions of a reported result ranges over 0..MaxQuestions
MaxQuestions == 1
\* at most MaxClicks clicks on 'Download Certificate' in one run
MaxClicks == 1
\* defaultCreateSitemapItems resolves to at most MaxItems items
MaxItems == 2

----------------------------------------------------------------------------
(* JavaScript helpers *)

\* ToBoolean of an optional number: undefined, NaN and 0 are falsy
Truthy(o) == o # {} /\ o # {0}

\* a || b
Or(a, b) == IF Truthy(a) THEN a ELSE b

\* o * 10 (undefined * 10 is NaN)
Times10(o) == {v * 10 : v \in o}

\* the number held by an optional that is known to hold one
Val(o) == CHOOSE v \in o : TRUE

Null == [null |-> TRUE]
NullQuiz == "null"

----------------------------------------------------------------------------
(* quiz.tsx *)

QuizTypes == {"starter", "po", "full"}

\* variant: the branch for "full" is missing, quizData stays undefined
QuizDataWithoutFull(sel) ==
    IF sel = "starter" THEN "starterQuiz"
    ELSE IF sel = "po" THEN "poQuiz"
    ELSE "undefined"

\* lines 76-86: quizData is one of the three quiz objects, or stays undefined
QuizData(sel) ==
    IF sel = "starter" THEN "starterQuiz"
    ELSE IF sel = "po" THEN "poQuiz"
    ELSE IF sel = "full" THEN "fullsetQuiz"
    ELSE "undefined"

\* variant: the starter quiz gets the full hour
QuizDurationWithoutHalving(sel) ==
    IF sel = "starter" THEN {3600}
    ELSE IF sel = "po" THEN {3600}
    ELSE IF sel = "full" THEN {3600 * 2}
    ELSE {}

\* lines 76-86: quizDuration
QuizDuration(sel) ==
    IF sel = "starter" THEN {3600 \div 2}
    ELSE IF sel = "po" THEN {3600}
    ELSE IF sel = "full" THEN {3600 * 2}
    ELSE {}

\* variant: no final || 100
TotalPointsWithoutDefault(result) ==
    Or(result.totalPoints, Times10(result.numberOfQuestions))

\* line 92
TotalPoints(result) ==
    Or(Or(result.totalPoints, Times10(result.numberOfQuestions)), {100})

\* line 93
UserPoints(result) ==
    Or(Or(result.correctPoints, result.correctPoints), {0})

\* line 94: userPoints / totalPoints >= 0.7.  Division by zero gives
\* Infinity (for a positive numerator) or NaN; an undefined operand gives NaN.
Ratio70(u, t) ==
    IF u = {} \/ t = {} THEN FALSE
    ELSE IF Val(t) = 0 THEN Val(u) > 0
    ELSE IF Val(t) > 0 THEN 10 * Val(u) >= 7 * Val(t)
    ELSE 10 * Val(u) <= 7 * Val(t)

\* variant: a strict comparison, > 0.7
PassedStrict(result) ==
    /\ Ratio70(UserPoints(result), TotalPoints(result))
    /\ 10 * Val(UserPoints(result)) # 7 * Val(TotalPoints(result))

\* line 94: const passed
Passed(result) == Ratio70(UserPoints(result), TotalPoints(result))

\* variant: the quiz block is rendered whatever selectedQuiz is
QuizRenderedAlways == TRUE

\* line 106: selectedQuiz !== null && quizData (every quiz object is truthy)
QuizRendered == selectedQuiz # NullQuiz /\ QuizData(selectedQuiz) # "undefined"

\* line 103-104: the menu (HomepageHeader and QuizFeatures)
MenuRendered == selectedQuiz = NullQuiz

\* variant: the certificate block is not guarded by showCertificate
CertificateShownWithoutFlag(sel, res, show) ==
    sel # NullQuiz /\ QuizData(sel) # "undefined" /\ res # Null

\* line 125, inside the block of line 106
CertificateShownFor(sel, res, show) ==
    sel # NullQuiz /\ QuizData(sel) # "undefined" /\ show /\ res # Null
CertificateRendered ==
    CertificateShownFor(selectedQuiz, quizResult, showCertificate)

\* lines 127-131: the props handed to <Certificate>
UserNameProp == <<>>
\* variant: correctAnswers is tried first
ScorePropAnswersFirst(res) == Or(Or(res.correctAnswers, res.correctPoints), {0})
ScoreProp(res) == Or(Or(res.correctPoints, res.correctAnswers), {0})
TotalProp(res) == Or(Or(res.totalPoints, Times10(res.numberOfQuestions)), {100})

\* the finite set of results the quiz widget reports in the model
Optional(S) == {{}} \cup {{v} : v \in S}
TotalValues == {10 * q : q \in 1..MaxQuestions} \cup {100}
QuizResults ==
    [ correctPoints     : Optional({0} \cup {(7 * t) \div 10 + d :
                                              t \in TotalValues, d \in {-1, 0}}),
      totalPoints       : Optional({0, 10}),
      numberOfQuestions : Optional(0..MaxQuestions),
      correctAnswers    : Optional({9}) ]

----------------------------------------------------------------------------
(* Certificate.tsx *)

\* a string is the sequence of its UTF-16 code units
\* line 21: the code units /\s/ matches: tab, line feed, vertical tab, form
\* feed, carriage return, space, U+00A0, U+1680, U+2000..U+200A, U+2028,
\* U+2029, U+202F, U+205F, U+3000 and U+FEFF
Whitespace ==
    {9, 10, 11, 12, 13, 32, 160, 5760} \cup (8192..8202)
    \cup {8232, 8233, 8239, 8287, 12288, 65279}

\* the values typed into the name input: "" and "A B\u00A0C"
Names == { <<>>, <<65, 32, 66, 160, 67>> }

\* line 40: the href of the stylesheet link
FontUrl ==
    "https://fonts.googleapis.com/css?family=Montserrat:400,600,700&display=swap"

\* line 17: the module specifier of the dynamic import; the site's bundler
\* turns it into a chunk the browser fetches when import() is first called
Html2CanvasModule == "html2canvas"

\* no Certificate instance in the tree
Unmounted == [mounted |-> FALSE, userNameInput |-> <<>>, margin |-> ""]

\* line 12: useState(userName) on mount; the certRef element has no margin
Mount(userName) ==
    [mounted |-> TRUE, userNameInput |-> userName, margin |-> ""]

\* line 122: {userNameInput || <span>Your Name</span>}
\* "Your Name"
Placeholder == <<89, 111, 117, 114, 32, 78, 97, 109, 101>>
ShownName(cert) ==
    IF cert.userNameInput # <<>> THEN cert.userNameInput ELSE Placeholder

\* line 21: userName.replace(/\s/g, "_"); "_" is code unit 95
ReplaceWhitespace(s) ==
    [i \in DOMAIN s |-> IF s[i] \in Whitespace THEN 95 ELSE s[i]]

\* line 21: "certificate-" and ".png" of the template literal
NamePrefix == <<99, 101, 114, 116, 105, 102, 105, 99, 97, 116, 101, 45>>
NameSuffix == <<46, 112, 110, 103>>

\* line 21: `certificate-${...}.png`
DownloadName(userName) ==
    NamePrefix \o ReplaceWhitespace(userName) \o NameSuffix

Remove(seq, i) == SubSeq(seq, 1, i - 1) \o SubSeq(seq, i + 1, Len(seq))

\* the element of an unmounted Certificate leaves the document; a promise
\* chain that captured it (line 16) still holds it, with the name it showed
Detach(p, cert) ==
    [i \in DOMAIN p |->
        IF p[i].attached
        THEN [p[i] EXCEPT !.attached = FALSE, !.shown = ShownName(cert)]
        ELSE p[i]]

----------------------------------------------------------------------------
(* React re-render of Home after its state changed: the Certificate is     *)
(* mounted (with fresh local state), kept, or unmounted; mounting inserts  *)
(* the <link> of Certificate.tsx line 40, which the document fetches.      *)

\* variant: the certificate is hidden instead of unmounted, its state survives
RerenderKeepsCertificateState ==
    /\ certificate' = [certificate EXCEPT !.mounted = CertificateRendered']
    /\ pending' =
          IF certificate.mounted /\ ~CertificateRendered'
          THEN Detach(pending, certificate) ELSE pending
    /\ requests' =
          IF ~certificate.mounted /\ CertificateRendered'
          THEN requests \cup {FontUrl} ELSE requests

\* variant: mounting the certificate starts an export by itself
RerenderExportsOnMount ==
    /\ certificate' =
          IF CertificateRendered'
          THEN IF certificate.mounted THEN certificate ELSE Mount(UserNameProp)
          ELSE Unmounted
    /\ pending' =
          IF certificate.mounted /\ ~CertificateRendered'
          THEN Detach(pending, certificate)
          ELSE IF ~certificate.mounted /\ CertificateRendered'
               THEN Append(pending, [stage |-> "import", attached |-> TRUE,
                                     shown |-> <<>>, userName |-> UserNameProp])
               ELSE pending
    /\ requests' =
          IF ~certificate.mounted /\ CertificateRendered'
          THEN requests \cup {FontUrl} ELSE requests

\* variant: unmounting the certificate cancels the exports it started
RerenderCancelsExports ==
    /\ certificate' =
          IF CertificateRendered'
          THEN IF certificate.mounted THEN certificate ELSE Mount(UserNameProp)
          ELSE Unmounted
    /\ pending' =
          IF certificate.mounted /\ ~CertificateRendered'
          THEN <<>> ELSE pending
    /\ requests' =
          IF ~certificate.mounted /\ CertificateRendered'
          THEN requests \cup {FontUrl} ELSE requests

Rerender ==
    /\ certificate' =
          IF CertificateRendered'
          THEN IF certificate.mounted THEN certificate ELSE Mount(UserNameProp)
          ELSE Unmounted
    /\ pending' =
          IF certificate.mounted /\ ~CertificateRendered'
          THEN Detach(pending, certificate) ELSE pending
    /\ requests' =
          IF ~certificate.mounted /\ CertificateRendered'
          THEN requests \cup {FontUrl} ELSE requests

----------------------------------------------------------------------------
(* Event handlers of the quiz page *)

\* quiz.tsx lines 46, 53, 60 and 103: a menu button calls setSelectedQuiz
SelectQuiz(q) ==
    /\ MenuRendered
    /\ selectedQuiz' = q
    /\ UNCHANGED <<quizResult, showCertificate>>
    /\ Rerender
    /\ UNCHANGED <<downloads, clicks>>

\* variant: a certificate once earned stays, setShowCertificate(flag || passed)
HandleQuizCompleteSticky(result) ==
    /\ QuizRendered
    /\ quizResult' = result
    /\ showCertificate' = (showCertificate \/ Passed(result))
    /\ UNCHANGED selectedQuiz
    /\ Rerender
    /\ UNCHANGED <<downloads, clicks>>

\* quiz.tsx lines 89-96, called by the rendered quiz widget (line 123)
HandleQuizComplete(result) ==
    /\ QuizRendered
    /\ quizResult' = result
    /\ showCertificate' = Passed(result)
    /\ UNCHANGED selectedQuiz
    /\ Rerender
    /\ UNCHANGED <<downloads, clicks>>

\* variant: the handler forgets setQuizResult(null)
BackToMenuKeepsResult ==
    /\ QuizRendered
    /\ showCertificate' = FALSE
    /\ selectedQuiz' = NullQuiz
    /\ UNCHANGED quizResult
    /\ Rerender
    /\ UNCHANGED <<downloads, clicks>>

\* quiz.tsx lines 134-144: 'Back to Quiz Menu'
BackToMenu ==
    /\ QuizRendered
    /\ quizResult' = Null
    /\ showCertificate' = FALSE
    /\ selectedQuiz' = NullQuiz
    /\ Rerender
    /\ UNCHANGED <<downloads, clicks>>

\* Certificate.tsx line 46: onChange of the name input
ChangeName(n) ==
    /\ certificate.mounted
    /\ certificate' = [certificate EXCEPT !.userNameInput = n]
    /\ UNCHANGED <<selectedQuiz, quizResult, showCertificate,
                   pending, downloads, clicks, requests>>

\* variant: the click also closes the certificate
HandleDownloadThenCloses ==
    /\ certificate.mounted
    /\ clicks < MaxClicks
    /\ clicks' = clicks + 1
    /\ pending' = Append(pending, [stage |-> "import", attached |-> TRUE,
                                   shown |-> <<>>, userName |-> UserNameProp])
    /\ showCertificate' = FALSE
    /\ requests' = requests \cup {Html2CanvasModule}
    /\ UNCHANGED <<selectedQuiz, quizResult, certificate, downloads>>

\* Certificate.tsx lines 14-17: the click handler returns after starting
\* import('html2canvas'); certRef.current is set while the component is mounted
HandleDownload ==
    /\ certificate.mounted
    /\ clicks < MaxClicks
    /\ clicks' = clicks + 1
    /\ pending' = Append(pending, [stage |-> "import", attached |-> TRUE,
                                   shown |-> <<>>, userName |-> UserNameProp])
    /\ requests' = requests \cup {Html2CanvasModule}
    /\ UNCHANGED <<selectedQuiz, quizResult, showCertificate, certificate,
                   downloads>>

\* Certificate.tsx lines 17-18: the module promise resolves and
\* html2canvas.default(element) is called
ModuleLoaded(i) ==
    /\ i \in DOMAIN pending
    /\ pending[i].stage = "import"
    /\ pending' = [pending EXCEPT ![i].stage = "render"]
    /\ UNCHANGED <<selectedQuiz, quizResult, showCertificate, certificate,
                   downloads, clicks, requests>>

\* Certificate.tsx lines 18-24: the canvas promise resolves
CanvasRendered(i) ==
    /\ i \in DOMAIN pending
    /\ pending[i].stage = "render"
    /\ certificate' = IF pending[i].attached
                      THEN [certificate EXCEPT !.margin = "40px"]
                      ELSE certificate
    /\ downloads' = Append(downloads, DownloadName(pending[i].userName))
    /\ pending' = Remove(pending, i)
    /\ UNCHANGED <<selectedQuiz, quizResult, showCertificate, clicks, requests>>

\* Certificate.tsx line 17: the module promise rejects; the chain has no
\* catch, so it ends there
ImportRejected(i) ==
    /\ i \in DOMAIN pending
    /\ pending[i].stage = "import"
    /\ pending' = Remove(pending, i)
    /\ UNCHANGED <<selectedQuiz, quizResult, showCertificate, certificate,
                   downloads, clicks, requests>>

\* Certificate.tsx lines 18-24: the canvas promise rejects; the chain has no
\* catch, so nothing else happens
CanvasRejected(i) ==
    /\ i \in DOMAIN pending
    /\ pending[i].stage = "render"
    /\ pending' = Remove(pending, i)
    /\ UNCHANGED <<selectedQuiz, quizResult, showCertificate, certificate,
                   downloads, clicks, requests>>

PageInit ==
    /\ selectedQuiz = NullQuiz
    /\ quizResult = Null
    /\ showCertificate = FALSE
    /\ certificate = Unmounted
    /\ pending = <<>>
    /\ downloads = <<>>
    /\ clicks = 0
    /\ requests = {}

----------------------------------------------------------------------------
(* docusaurus.config.ts: the sitemap option createSitemapItems *)

PagePattern == <<"/", "p", "a", "g", "e", "/">>

\* String.prototype.includes: the pattern occurs at some position
Includes(s, p) ==
    \E k \in 0..(Len(s) - Len(p)) : \A j \in 1..Len(p) : s[k + j] = p[j]

\* variant: only a URL that starts with the pattern is dropped
FilterItemsByPrefix(items) ==
    SelectSeq(items, LAMBDA item :
        ~(Len(item.url) >= Len(PagePattern)
          /\ SubSeq(item.url, 1, Len(PagePattern)) = PagePattern))
\* line 76: items.filter((item) => !item.url.includes("/page/"))
FilterItems(items) ==
    SelectSeq(items, LAMBDA item : ~Includes(item.url, PagePattern))

Urls ==
    { <<"/", "q", "u", "i", "z">>,
      <<"/", "p", "a", "g", "e", "/", "2">>,
      <<"/", "b", "/", "p", "a", "g", "e", "/", "2">>,
      <<"/", "p", "a", "g", "e">>,
      <<"/", "p", "a", "g", "e", "s", "/">> }

\* lines 68-70: lastmod "date", changefreq "weekly", priority 0.5
SitemapItems ==
    [ url : Urls, lastmod : {"null", "2025-01-01"},
      changefreq : {"weekly"}, priority : {"0.5"} ]

SeqsUpTo(S, n) == UNION { [1..k -> S] : k \in 0..n }

\* lines 74-75: the callback awaits defaultCreateSitemapItems(rest)
DefaultItemsResolved(items) ==
    /\ sitemapPc = "await"
    /\ defaultItems' = items
    /\ sitemapPc' = "filter"
    /\ UNCHANGED sitemap

\* line 76: the callback returns the filtered items
CreateSitemapItemsReturns ==
    /\ sitemapPc = "filter"
    /\ sitemap' = FilterItems(defaultItems)
    /\ sitemapPc' = "done"
    /\ UNCHANGED defaultItems

SitemapIdle ==
    /\ defaultItems = <<>>
    /\ sitemap = <<>>
    /\ sitemapPc = "idle"

SitemapInit ==
    /\ defaultItems = <<>>
    /\ sitemap = <<>>
    /\ sitemapPc = "await"

----------------------------------------------------------------------------
(* quiz.tsx: a completion callback that arrives after 'Back to Quiz Menu'. *)
(* The quiz widget received handleQuizComplete as its onComplete prop      *)
(* (line 123); an instance unmounted by Back still holds it, and the       *)
(* handler itself (lines 89-96) does not look at selectedQuiz.             *)

LateQuizComplete(result) ==
    /\ unmountedWidget
    /\ quizResult' = result
    /\ showCertificate' = Passed(result)
    /\ UNCHANGED selectedQuiz
    /\ Rerender
    /\ UNCHANGED <<downloads, clicks>>
    /\ unmountedWidget' = FALSE

LateIdle == unmountedWidget = FALSE

----------------------------------------------------------------------------
(* docs/03-Tutorials/07-client-server-llm/README.md: class CircuitBreaker. *)
(* execute is an async method: it runs from the call to the await of line  *)
(* 740 in one step, and from the settling of the operation to its end in   *)
(* another, so that calls overlap.                                         *)

\* new CircuitBreaker({failureThreshold: ..., resetTimeout: ...})
OptFailureThreshold == 2
OptResetTimeout == 1
\* Date.now() ranges over 0..MaxTime
MaxTime == 3
\* at most MaxAwaiting execute calls are suspended at a time
MaxAwaiting == 2
\* no call is admitted that could take failureCount beyond MaxFailureCount
MaxFailureCount == 4

\* line 723: options.failureThreshold || 5
failureThreshold == Val(Or({OptFailureThreshold}, {5}))
\* line 724: options.resetTimeout || 60000
resetTimeout == Val(Or({OptResetTimeout}, {60000}))

\* the states in which execute reaches the await
AdmissionStates == {"CLOSED", "HALF_OPEN"}
AwaitingTotal == awaiting["CLOSED"] + awaiting["HALF_OPEN"]

\* line 732: Date.now() - this.lastFailureTime (null converts to 0)
SinceLastFailure ==
    now - (IF lastFailureTime = {} THEN 0 ELSE Val(lastFailureTime))

\* lines 730-740: a call of execute, up to the await of operation()
Execute ==
    IF state = "OPEN" /\ ~(SinceLastFailure > resetTimeout)
    THEN /\ lastEvent' = "rejected"
         /\ UNCHANGED <<state, failureCount, lastFailureTime, now, awaiting>>
    ELSE /\ AwaitingTotal < MaxAwaiting
         /\ failureCount + AwaitingTotal < MaxFailureCount
         /\ state' = IF state = "OPEN" THEN "HALF_OPEN" ELSE state
         /\ awaiting' = [awaiting EXCEPT ![state'] = @ + 1]
         /\ lastEvent' = "invoked"
         /\ UNCHANGED <<failureCount, lastFailureTime, now>>

\* lines 749-752
OnSuccess ==
    /\ failureCount' = 0
    /\ state' = "CLOSED"

\* variant: the breaker opens only above the threshold
OnFailureAboveThreshold ==
    /\ failureCount' = failureCount + 1
    /\ lastFailureTime' = {now}
    /\ state' = IF failureCount' > failureThreshold THEN "OPEN" ELSE state

\* lines 754-761
OnFailure ==
    /\ failureCount' = failureCount + 1
    /\ lastFailureTime' = {now}
    /\ state' = IF failureCount' >= failureThreshold THEN "OPEN" ELSE state

\* lines 740-742: the operation of a suspended call resolves
OperationResolves(admitted) ==
    /\ awaiting[admitted] > 0
    /\ awaiting' = [awaiting EXCEPT ![admitted] = @ - 1]
    /\ OnSuccess
    /\ lastEvent' = "returned"
    /\ UNCHANGED <<lastFailureTime, now>>

\* lines 743-746: the operation of a suspended call rejects
OperationRejects(admitted) ==
    /\ awaiting[admitted] > 0
    /\ awaiting' = [awaiting EXCEPT ![admitted] = @ - 1]
    /\ OnFailure
    /\ lastEvent' = "threw"
    /\ UNCHANGED now

\* time passes
Tick ==
    /\ now < MaxTime
    /\ now' = now + 1
    /\ UNCHANGED <<state, failureCount, lastFailureTime, awaiting, lastEvent>>

\* lines 722-728: the constructor
BreakerInit ==
    /\ state = "CLOSED"
    /\ failureCount = 0
    /\ lastFailureTime = {}
    /\ now = 0
    /\ awaiting = [a \in AdmissionStates |-> 0]
    /\ lastEvent = "none"

BreakerIdle == BreakerInit

----------------------------------------------------------------------------
(* docs/03-Tutorials/07-client-server-llm/README.md: class ConnectionPool. *)
(* An acquire call is numbered in call order.  Its promise is pending      *)
(* while it is "creating" (factory.create() has not settled) or "queued"   *)
(* (its entry is in this.pending); the timer of line 785 may fire as long  *)
(* as it has not been cleared, and rejects the promise.                    *)

\* new ConnectionPool(factory, {maxSize: ..., minSize: ...})
OptMaxSize == 2
OptMinSize == 1
\* at most MaxAcquires calls of acquire in one run
MaxAcquires == 4

\* line 774: options.maxSize || 10
maxSize == Val(Or({OptMaxSize}, {10}))
\* line 775: options.minSize || 2
minSize == Val(Or({OptMinSize}, {2}))

Acquirers == 1..MaxAcquires
\* every acquire call makes at most one connection
Connections == 1..MaxAcquires

\* the calls whose promise was rejected with 'Connection acquire timeout'
TimedOutStatuses == {"creatingTimedOut", "queuedTimedOut", "timedOut"}
\* the calls with a factory.create() under way
Creating == {a \in Acquirers : acquirers[a] \in {"creating", "creatingTimedOut"}}

\* lines 783-810: a call of acquire
Acquire ==
    \E a \in Acquirers :
        /\ acquirers[a] = "unused"
        /\ \A b \in Acquirers : b < a => acquirers[b] # "unused"
        /\ IF pool # <<>>
           THEN LET connection == pool[Len(pool)] IN
                  /\ pool' = SubSeq(pool, 1, Len(pool) - 1)
                  /\ inUse' = inUse \cup {connection}
                  /\ givenTo' = [givenTo EXCEPT ![connection] = a]
                  /\ acquirers' = [acquirers EXCEPT ![a] = "resolved"]
                  /\ UNCHANGED <<poolPending, created, destroyed>>
           ELSE IF Cardinality(inUse) < maxSize
           THEN /\ acquirers' = [acquirers EXCEPT ![a] = "creating"]
                /\ UNCHANGED <<pool, poolPending, inUse, givenTo, created,
                               destroyed>>
           ELSE /\ poolPending' = Append(poolPending, a)
                /\ acquirers' = [acquirers EXCEPT ![a] = "queued"]
                /\ UNCHANGED <<pool, inUse, givenTo, created, destroyed>>

\* lines 785-787: the timer of a call whose promise is still pending fires
AcquireTimeout(a) ==
    /\ acquirers[a] \in {"creating", "queued"}
    /\ acquirers' = [acquirers EXCEPT
                        ![a] = IF @ = "creating" THEN "creatingTimedOut"
                               ELSE "queuedTimedOut"]
    /\ UNCHANGED <<pool, poolPending, inUse, givenTo, created, destroyed>>

\* lines 798-803: factory.create() resolves; resolve() of a promise that was
\* already rejected does nothing
CreateResolves(a) ==
    /\ a \in Creating
    /\ LET connection == created + 1 IN
          /\ created' = connection
          /\ inUse' = inUse \cup {connection}
          /\ givenTo' = [givenTo EXCEPT ![connection] = a]
    /\ acquirers' = [acquirers EXCEPT
                        ![a] = IF @ = "creating" THEN "resolved"
                               ELSE "timedOut"]
    /\ UNCHANGED <<pool, poolPending, destroyed>>

\* line 804: factory.create() rejects
CreateRejects(a) ==
    /\ a \in Creating
    /\ acquirers' = [acquirers EXCEPT
                        ![a] = IF @ = "creating" THEN "failed"
                               ELSE "timedOut"]
    /\ UNCHANGED <<pool, poolPending, inUse, givenTo, created, destroyed>>

\* lines 812-825: release(connection).  The method checks nothing about its
\* argument: it may be a connection in use, one already released (in the
\* idle pool or destroyed), or one added to inUse for a call that timed out.
\* The call that held the connection, if any, holds it no more.
Release(connection) ==
    /\ connection \in 1..created
    /\ LET holder == givenTo[connection]
           held == connection \in inUse /\ acquirers[holder] = "resolved"
       IN
       IF poolPending # <<>>
       THEN LET w == Head(poolPending) IN
              /\ poolPending' = Tail(poolPending)
              /\ inUse' = (inUse \ {connection}) \cup {connection}
              /\ acquirers' =
                    [a \in Acquirers |->
                        IF a = w
                        THEN (IF acquirers[a] = "queued" THEN "resolved"
                              ELSE "timedOut")
                        ELSE IF held /\ a = holder THEN "released"
                        ELSE acquirers[a]]
              /\ givenTo' = [givenTo EXCEPT ![connection] = w]
              /\ UNCHANGED <<pool, created, destroyed>>
       ELSE /\ inUse' = inUse \ {connection}
            /\ acquirers' =
                  [a \in Acquirers |->
                      IF held /\ a = holder THEN "released" ELSE acquirers[a]]
            /\ IF Len(pool) < minSize
               THEN pool' = Append(pool, connection) /\ UNCHANGED destroyed
               ELSE destroyed' = destroyed \cup {connection}
                    /\ UNCHANGED pool
            /\ UNCHANGED <<poolPending, givenTo, created>>

\* lines 772-781: the constructor
PoolInit ==
    /\ pool = <<>>
    /\ poolPending = <<>>
    /\ inUse = {}
    /\ acquirers = [a \in Acquirers |-> "unused"]
    /\ givenTo = [c \in Connections |-> 0]
    /\ created = 0
    /\ destroyed = {}

----------------------------------------------------------------------------
(* unnamed/part_012, security/rate-limiter.js: class RateLimiter.          *)
(* The callback of setInterval (lines 453-465) is an action of its own;    *)
(* the model lets it run at any time.                                      *)

\* new RateLimiter({windowMs: ..., maxRequests: ...})
OptWindowMs == 2
OptMaxRequests == 2
\* the clock runs until a block that began at 0 has expired
LimiterMaxTime == 5 * OptWindowMs + 1

\* line 414: options.windowMs || 60000
windowMs == Val(Or({OptWindowMs}, {60000}))
\* line 415: options.maxRequests || 100
maxRequests == Val(Or({OptMaxRequests}, {100}))

Clients == {"c1", "c2"}
\* this.clients has no entry for the client
Absent == [absent |-> TRUE]

\* line 423: this.clients.get(clientId) || { requests: [], blocked: false }
ClientOf(clientId) ==
    IF clients[clientId] = Absent
    THEN [requests |-> <<>>, blocked |-> FALSE, blockedAt |-> {}]
    ELSE clients[clientId]

\* lines 426-428 and 456-458: requests.filter(now - timestamp < windowMs)
InWindow(timestamps) ==
    SelectSeq(timestamps, LAMBDA timestamp : now - timestamp < windowMs)

\* line 431: client.blocked && now - client.blockedAt < this.windowMs * 5
StillBlocked(client) ==
    client.blocked /\ client.blockedAt # {}
    /\ now - Val(client.blockedAt) < windowMs * 5

\* lines 421-449.  The stored client object is filtered in place; a fresh
\* object is stored only by the set of line 439 or 446.
IsAllowed(clientId) ==
    LET client == ClientOf(clientId)
        kept == InWindow(client.requests)
    IN  IF StillBlocked(client)
        THEN /\ limiterReturned' = "false"
             /\ clients' = [clients EXCEPT ![clientId].requests = kept]
             /\ UNCHANGED accepted
        ELSE IF Len(kept) >= maxRequests
        THEN /\ clients' = [clients EXCEPT
                              ![clientId] = [requests |-> kept,
                                             blocked |-> TRUE,
                                             blockedAt |-> {now}]]
             /\ limiterReturned' = "false"
             /\ UNCHANGED accepted
        ELSE /\ clients' = [clients EXCEPT
                              ![clientId] = [requests |-> Append(kept, now),
                                             blocked |-> FALSE,
                                             blockedAt |-> client.blockedAt]]
             /\ limiterReturned' = "true"
             /\ accepted' = [accepted EXCEPT ![clientId] = Append(@, now)]

\* variant: an idle client is deleted whether it is blocked or not
CleanedIgnoringBlock(client) ==
    IF client = Absent THEN Absent
    ELSE IF InWindow(client.requests) = <<>> THEN Absent
    ELSE [client EXCEPT !.requests = InWindow(client.requests)]

\* lines 456-463: what the cleanup pass leaves of one entry
Cleaned(client) ==
    IF client = Absent THEN Absent
    ELSE IF /\ InWindow(client.requests) = <<>>
            /\ (~client.blocked
                  \/ (client.blockedAt # {}
                      /\ now - Val(client.blockedAt) > windowMs * 5))
    THEN Absent
    ELSE [client EXCEPT !.requests = InWindow(client.requests)]

\* lines 453-465: one run of the interval callback
Cleanup ==
    /\ clients' = [clientId \in Clients |-> Cleaned(clients[clientId])]
    /\ UNCHANGED <<limiterReturned, accepted>>

\* time passes; the record of recent true returns drops what is windowMs old
LimiterTick ==
    /\ now < LimiterMaxTime
    /\ now' = now + 1
    /\ accepted' =
          [clientId \in Clients |->
              SelectSeq(accepted[clientId],
                        LAMBDA timestamp : now + 1 - timestamp < windowMs)]
    /\ UNCHANGED <<clients, limiterReturned>>

\* lines 413-418: the constructor
LimiterInit ==
    /\ clients = [clientId \in Clients |-> Absent]
    /\ limiterReturned = "none"
    /\ accepted = [clientId \in Clients |-> <<>>]

----------------------------------------------------------------------------
(* unnamed/part_013, auth/session-manager.js: class SessionManager.        *)
(* A session is its id, lastActivity and isActive; this.sessions is a Map  *)
(* and is kept as the sequence of its entries in insertion order.  Dates   *)
(* are the clock values at which they were taken.                          *)

\* new SessionManager({maxSessions: ..., sessionTimeout: ...})
OptMaxSessions == 2
OptSessionTimeout == 1
\* generateSessionId returns at most MaxSessionIds ids, all different
MaxSessionIds == 4
\* new Date() ranges over 0..SessionMaxTime
SessionMaxTime == 2

\* line 571: options.sessionTimeout || 30 * 60 * 1000
sessionTimeout == Val(Or({OptSessionTimeout}, {30 * 60 * 1000}))
\* line 572: options.maxSessions || 1000
maxSessions == Val(Or({OptMaxSessions}, {1000}))

SessionIdsOf(ss) == {ss[i].id : i \in DOMAIN ss}
WithoutSession(ss, id) == SelectSeq(ss, LAMBDA session : session.id # id)

\* lines 642-647: the loop over the entries from position i on; the result
\* is the id found, 0 standing for null
RECURSIVE OldestFrom(_, _, _, _)
OldestFrom(ss, i, oldestTime, oldestSession) ==
    IF i > Len(ss) THEN oldestSession
    ELSE IF ss[i].lastActivity < oldestTime
         THEN OldestFrom(ss, i + 1, ss[i].lastActivity, ss[i].id)
         ELSE OldestFrom(ss, i + 1, oldestTime, oldestSession)

\* lines 638-652: oldestTime starts as new Date()
EvictOldestSession(ss) ==
    LET oldestSession == OldestFrom(ss, 1, now, 0) IN
      IF oldestSession # 0 THEN WithoutSession(ss, oldestSession) ELSE ss

\* lines 579-597
CreateSession ==
    /\ sessionIds < MaxSessionIds
    /\ sessionIds' = sessionIds + 1
    /\ LET session == [id |-> sessionIds + 1, lastActivity |-> now,
                       isActive |-> TRUE]
           kept == IF Len(sessions) >= maxSessions
                   THEN EvictOldestSession(sessions) ELSE sessions
       IN  sessions' = Append(kept, session)

SetActive(ss, id, active) ==
    [i \in DOMAIN ss |->
        IF ss[i].id = id THEN [ss[i] EXCEPT !.isActive = active] ELSE ss[i]]

\* lines 622-627
InvalidateSession(id) ==
    /\ sessions' = SetActive(sessions, id, FALSE)
    /\ UNCHANGED sessionIds

\* lines 600-619, for a stored session that is active; the other calls
\* throw before changing anything
ValidateSession(id) ==
    /\ \E i \in DOMAIN sessions :
          /\ sessions[i].id = id
          /\ sessions[i].isActive
          /\ IF now - sessions[i].lastActivity > sessionTimeout
             THEN sessions' = SetActive(sessions, id, FALSE)
             ELSE sessions' = [sessions EXCEPT ![i].lastActivity = now]
    /\ UNCHANGED sessionIds

\* lines 630-632
RemoveSession(id) ==
    /\ id \in SessionIdsOf(sessions)
    /\ sessions' = WithoutSession(sessions, id)
    /\ UNCHANGED sessionIds

\* lines 660-677, run by the interval of lines 654-658
CleanupExpiredSessions ==
    /\ sessions' =
          SelectSeq(sessions, LAMBDA session :
              ~(now - session.lastActivity > sessionTimeout
                \/ ~session.isActive))
    /\ UNCHANGED sessionIds

SessionTick ==
    /\ now < SessionMaxTime
    /\ now' = now + 1
    /\ UNCHANGED sessionVars

\* lines 569-576: the constructor
SessionInit ==
    /\ sessions = <<>>
    /\ sessionIds = 0

----------------------------------------------------------------------------
(* docs/03-Tutorials/07-client-server-llm/README.md: class ResourceCache.  *)
(* this.cache is a Map, kept as the sequence of its entries in insertion   *)
(* order: Map.prototype.set on a stored key replaces the entry where it    *)
(* is, on a new key it appends; keys().next().value is the first key.      *)
(* The cached values play no part and are left out.                        *)

\* new ResourceCache(maxSize, ttl)
OptCacheMaxSize == 2
OptTtl == 1
\* Date.now() ranges over 0..CacheMaxTime
CacheMaxTime == 2

\* line 449
cacheMaxSize == OptCacheMaxSize
\* line 450
ttl == OptTtl

Keys == {"a", "b", "c"}
CacheKeys(c) == {c[i].key : i \in DOMAIN c}
WithoutKey(c, key) == SelectSeq(c, LAMBDA item : item.key # key)
\* the key counts as just used
Touched(r, key) == Append(SelectSeq(r, LAMBDA k : k # key), key)

\* lines 453-463, for a stored key; a get of a key that is not stored
\* returns null and changes nothing
CacheGet(key) ==
    \E i \in DOMAIN cache :
        /\ cache[i].key = key
        /\ IF now - cache[i].timestamp > ttl
           THEN /\ cache' = WithoutKey(cache, key)
                /\ recency' = SelectSeq(recency, LAMBDA k : k # key)
           ELSE /\ recency' = Touched(recency, key)
                /\ UNCHANGED cache

\* lines 467-470: the first key of the Map is deleted
EvictFirst(c) == IF c # <<>> THEN Tail(c) ELSE c

\* lines 472-475: this.cache.set(key, {value, timestamp: Date.now()})
MapSet(c, key) ==
    IF key \in CacheKeys(c)
    THEN [i \in DOMAIN c |->
            IF c[i].key = key THEN [key |-> key, timestamp |-> now] ELSE c[i]]
    ELSE Append(c, [key |-> key, timestamp |-> now])

\* lines 465-476
CacheSet(key) ==
    LET kept == IF Len(cache) >= cacheMaxSize
                THEN EvictFirst(cache) ELSE cache
    IN  /\ cache' = MapSet(kept, key)
        /\ recency' =
              Touched(SelectSeq(recency, LAMBDA k : k \in CacheKeys(kept)),
                      key)

\* lines 478-480
CacheClear ==
    /\ cache' = <<>>
    /\ recency' = <<>>

CacheTick ==
    /\ now < CacheMaxTime
    /\ now' = now + 1
    /\ UNCHANGED cacheVars

\* lines 447-451: the constructor
CacheInit ==
    /\ cache = <<>>
    /\ recency = <<>>

----------------------------------------------------------------------------
(* docs/Appendix/troubleshooting.md: executeToolWithRetry.  The function   *)
(* is suspended at the await of line 412 ("awaitTool") and at the await    *)
(* of line 421 ("waiting").                                                *)

\* maxRetries ranges over 0..MaxRetries
MaxRetries == 4

\* what toolFunction resolves to, and what it rejects with (or throws):
\* Error objects, or null or undefined, which have no property to read
ToolValues == {"r1", "r2"}
ToolErrors == {"e1", "e2"}
NullRejections == {"null", "undefined"}
ToolRejections == ToolErrors \cup NullRejections

\* lines 409-412: the call, up to the first await; with maxRetries < 1 the
\* loop body never runs and the function returns undefined
ExecuteToolWithRetry(maxRetries) ==
    /\ retryPc = "idle"
    /\ retryMax' = maxRetries
    /\ attempt' = 1
    /\ IF 1 <= maxRetries
       THEN /\ retryPc' = "awaitTool"
            /\ invocations' = invocations + 1
            /\ UNCHANGED retryResult
       ELSE /\ retryPc' = "returned"
            /\ retryResult' = "undefined"
            /\ UNCHANGED invocations
    /\ UNCHANGED <<outcomes, waits>>

\* line 412: the promise of toolFunction resolves, the function returns
ToolResolves(value) ==
    /\ retryPc = "awaitTool"
    /\ outcomes' = Append(outcomes, value)
    /\ retryResult' = value
    /\ retryPc' = "returned"
    /\ UNCHANGED <<retryMax, attempt, invocations, waits>>

\* lines 413-421: the promise of toolFunction rejects.  Line 414 reads
\* error.message: on null or undefined that throws a TypeError inside the
\* catch block, which leaves the function
ToolRejects(error) ==
    /\ retryPc = "awaitTool"
    /\ outcomes' = Append(outcomes, error)
    /\ IF error \in NullRejections
       THEN /\ retryPc' = "threw"
            /\ retryResult' = "TypeError"
            /\ UNCHANGED waits
       ELSE IF attempt = retryMax
       THEN /\ retryPc' = "threw"
            /\ retryResult' = error
            /\ UNCHANGED waits
       ELSE /\ retryPc' = "waiting"
            /\ waits' = Append(waits, 1000 * attempt)
            /\ UNCHANGED retryResult
    /\ UNCHANGED <<retryMax, attempt, invocations>>

\* lines 421, 410 and 412: the timer fires, attempt++ and, the loop
\* condition holding, toolFunction is called again
TimerFires ==
    /\ retryPc = "waiting"
    /\ attempt' = attempt + 1
    /\ IF attempt + 1 <= retryMax
       THEN /\ retryPc' = "awaitTool"
            /\ invocations' = invocations + 1
            /\ UNCHANGED retryResult
       ELSE /\ retryPc' = "returned"
            /\ retryResult' = "undefined"
            /\ UNCHANGED invocations
    /\ UNCHANGED <<retryMax, outcomes, waits>>

\* the function has not been called
RetryIdle ==
    /\ retryPc = "idle"
    /\ retryMax = 0
    /\ attempt = 0
    /\ invocations = 0
    /\ outcomes = <<>>
    /\ waits = <<>>
    /\ retryResult = "none"

TutorialIdle ==
    PoolInit /\ LimiterInit /\ SessionInit /\ CacheInit /\ RetryIdle

----------------------------------------------------------------------------
(* Specifications *)

PageOnly ==
    UNCHANGED <<sitemapVars, lateVars, breakerVars, tutorialVars>>
SitemapOnly ==
    UNCHANGED <<pageVars, lateVars, breakerVars, tutorialVars>>
LateOnly == UNCHANGED <<sitemapVars, breakerVars, tutorialVars>>
BreakerOnly ==
    UNCHANGED <<pageVars, sitemapVars, lateVars, tutorialVars>>
\* the quiz page, the site configuration and the breaker stay as constructed
SiteIdle ==
    UNCHANGED <<pageVars, sitemapVars, lateVars, breakerVars>>
PoolOnly ==
    SiteIdle /\ UNCHANGED <<limiterVars, sessionVars, cacheVars, retryVars>>
\* the same with the clock left free
SiteIdleButClock ==
    UNCHANGED <<pageVars, sitemapVars, lateVars, breakerFields>>
LimiterOnly ==
    SiteIdleButClock
    /\ UNCHANGED <<poolVars, sessionVars, cacheVars, retryVars>>
SessionOnly ==
    SiteIdleButClock
    /\ UNCHANGED <<poolVars, limiterVars, cacheVars, retryVars>>
CacheOnly ==
    SiteIdleButClock
    /\ UNCHANGED <<poolVars, limiterVars, sessionVars, retryVars>>
RetryOnly ==
    SiteIdle /\ UNCHANGED <<poolVars, limiterVars, sessionVars, cacheVars>>

Init ==
    /\ PageInit /\ SitemapIdle /\ LateIdle /\ BreakerIdle
    /\ TutorialIdle

Next ==
    \/ \E q \in QuizTypes : SelectQuiz(q) /\ PageOnly
    \/ \E result \in QuizResults : HandleQuizComplete(result) /\ PageOnly
    \/ BackToMenu /\ PageOnly
    \/ \E n \in Names : ChangeName(n) /\ PageOnly
    \/ HandleDownload /\ PageOnly
    \/ \E i \in 1..MaxClicks : ModuleLoaded(i) /\ PageOnly
    \/ \E i \in 1..MaxClicks : CanvasRendered(i) /\ PageOnly
    \/ \E i \in 1..MaxClicks : ImportRejected(i) /\ PageOnly
    \/ \E i \in 1..MaxClicks : CanvasRejected(i) /\ PageOnly

\* the quiz page
Spec == Init /\ [][Next]_vars

SitemapSpecInit ==
    /\ PageInit /\ SitemapInit /\ LateIdle /\ BreakerIdle
    /\ TutorialIdle

SitemapSpecNext ==
    \/ \E items \in SeqsUpTo(SitemapItems, MaxItems) :
          DefaultItemsResolved(items) /\ SitemapOnly
    \/ CreateSitemapItemsReturns /\ SitemapOnly

\* one call of createSitemapItems at build time
SitemapSpec == SitemapSpecInit /\ [][SitemapSpecNext]_vars

LateCallbackNext ==
    \/ \E q \in QuizTypes :
          SelectQuiz(q) /\ UNCHANGED unmountedWidget /\ LateOnly
    \/ \E result \in QuizResults :
          HandleQuizComplete(result) /\ UNCHANGED unmountedWidget /\ LateOnly
    \/ BackToMenu /\ unmountedWidget' = TRUE /\ LateOnly
    \/ \E result \in QuizResults : LateQuizComplete(result) /\ LateOnly

\* the quiz page with a widget that may report completion after Back
LateCallbackSpec == Init /\ [][LateCallbackNext]_vars

\* the results that report points out of a total of 10 and nothing else:
\* some pass and some fail, which is all an export depends on
PointsOutOfTen ==
    { r \in QuizResults : /\ r.totalPoints = {10}
                          /\ r.numberOfQuestions = {}
                          /\ r.correctAnswers = {} }

ResolvingNext ==
    \/ \E q \in QuizTypes : SelectQuiz(q) /\ PageOnly
    \/ \E result \in PointsOutOfTen : HandleQuizComplete(result) /\ PageOnly
    \/ BackToMenu /\ PageOnly
    \/ \E n \in Names : ChangeName(n) /\ PageOnly
    \/ HandleDownload /\ PageOnly
    \/ \E i \in 1..MaxClicks : ModuleLoaded(i) /\ PageOnly
    \/ \E i \in 1..MaxClicks : CanvasRendered(i) /\ PageOnly

\* the quiz page when both promises of every export resolve: no canvas
\* promise rejects, and a promise that can resolve eventually does
ResolvingSpec ==
    /\ Init
    /\ [][ResolvingNext]_vars
    /\ WF_vars(\E i \in 1..MaxClicks : ModuleLoaded(i) /\ PageOnly)
    /\ WF_vars(\E i \in 1..MaxClicks : CanvasRendered(i) /\ PageOnly)

BreakerNext ==
    \/ Execute /\ BreakerOnly
    \/ \E a \in AdmissionStates : OperationResolves(a) /\ BreakerOnly
    \/ \E a \in AdmissionStates : OperationRejects(a) /\ BreakerOnly
    \/ Tick /\ BreakerOnly

\* one CircuitBreaker and its callers
BreakerSpec == Init /\ [][BreakerNext]_vars

PoolNext ==
    \/ Acquire /\ PoolOnly
    \/ \E a \in Acquirers : AcquireTimeout(a) /\ PoolOnly
    \/ \E a \in Acquirers : CreateResolves(a) /\ PoolOnly
    \/ \E a \in Acquirers : CreateRejects(a) /\ PoolOnly
    \/ \E connection \in Connections : Release(connection) /\ PoolOnly

\* one ConnectionPool, its factory and its callers
PoolSpec == Init /\ [][PoolNext]_vars

LimiterNext ==
    \/ \E clientId \in Clients :
          IsAllowed(clientId) /\ UNCHANGED now /\ LimiterOnly
    \/ Cleanup /\ UNCHANGED now /\ LimiterOnly
    \/ LimiterTick /\ LimiterOnly

\* one RateLimiter, its callers and its cleanup timer
LimiterSpec == Init /\ [][LimiterNext]_vars

SessionNext ==
    \/ CreateSession /\ UNCHANGED now /\ SessionOnly
    \/ \E id \in 1..MaxSessionIds :
          ValidateSession(id) /\ UNCHANGED now /\ SessionOnly
    \/ \E id \in 1..MaxSessionIds :
          InvalidateSession(id) /\ UNCHANGED now /\ SessionOnly
    \/ \E id \in 1..MaxSessionIds :
          RemoveSession(id) /\ UNCHANGED now /\ SessionOnly
    \/ CleanupExpiredSessions /\ UNCHANGED now /\ SessionOnly
    \/ SessionTick /\ SessionOnly

\* one SessionManager, its callers and its cleanup timer
SessionSpec == Init /\ [][SessionNext]_vars

CacheNext ==
    \/ \E key \in Keys : CacheGet(key) /\ UNCHANGED now /\ CacheOnly
    \/ \E key \in Keys : CacheSet(key) /\ UNCHANGED now /\ CacheOnly
    \/ CacheClear /\ UNCHANGED now /\ CacheOnly
    \/ CacheTick /\ CacheOnly

\* one ResourceCache and its callers
CacheSpec == Init /\ [][CacheNext]_vars

RetryNext ==
    \/ \E maxRetries \in 0..MaxRetries :
          ExecuteToolWithRetry(maxRetries) /\ RetryOnly
    \/ \E value \in ToolValues : ToolResolves(value) /\ RetryOnly
    \/ \E error \in ToolRejections : ToolRejects(error) /\ RetryOnly
    \/ TimerFires /\ RetryOnly

\* one call of executeToolWithRetry: a timer that was set fires; the promise
\* of toolFunction is the caller's and line 412 awaits it without a timeout,
\* so nothing makes it settle
RetrySpec ==
    /\ Init
    /\ [][RetryNext]_vars
    /\ WF_vars(TimerFires /\ RetryOnly)

----------------------------------------------------------------------------
(* Properties *)

\* the pass rule as the specification words it
WordedUserPoints(r) ==
    IF r.correctPoints = {} \/ r.correctPoints = {0} THEN 0
    ELSE Val(r.correctPoints)
WordedTotalPoints(r) ==
    IF r.totalPoints # {} /\ r.totalPoints # {0} THEN Val(r.totalPoints)
    ELSE IF r.numberOfQuestions # {} /\ r.numberOfQuestions # {0}
         THEN Val(r.numberOfQuestions) * 10
         ELSE 100
WordedPass(r) == 10 * WordedUserPoints(r) >= 7 * WordedTotalPoints(r)

\* C1: when the widget reports completion with result r, handleQuizComplete
\* stores r and sets the certificate flag to true iff
\* userPoints / totalPoints >= 0.7 (exactly 70% passes, anything below fails)
C1_PassRule ==
    [][ (quizResult' # Null /\ HandleQuizComplete(quizResult')) =>
           (showCertificate' <=> WordedPass(quizResult')) ]_vars

\* a result of exactly 70% has been reported and the flag is set
C1_Witness ==
    /\ quizResult # Null
    /\ 10 * WordedUserPoints(quizResult) = 7 * WordedTotalPoints(quizResult)
    /\ showCertificate

\* C2: the Certificate component is rendered only if a quiz is selected, a
\* result is stored and the stored result satisfies the 70% rule
C2_CertificateOnlyWhenPassed ==
    certificate.mounted =>
       /\ selectedQuiz # NullQuiz
       /\ quizResult # Null
       /\ WordedPass(quizResult)

\* a certificate is on screen for the 'starter' quiz
C2_Witness == certificate.mounted /\ selectedQuiz = "starter"

\* C3: selection -> widget rendered -> completion -> certificate: the widget
\* appears only by a selection, a completion is recorded only while the widget
\* of the selected quiz is rendered, and the certificate appears only in the
\* step that records a completion for the selected quiz
C3_Order ==
    [][ /\ (~QuizRendered /\ QuizRendered') =>
              (selectedQuiz = NullQuiz /\ selectedQuiz' \in QuizTypes)
        /\ (quizResult' # Null /\ quizResult' # quizResult) =>
              (selectedQuiz \in QuizTypes /\ selectedQuiz' = selectedQuiz)
        /\ (~certificate.mounted /\ certificate'.mounted) =>
              /\ selectedQuiz \in QuizTypes /\ selectedQuiz' = selectedQuiz
              /\ quizResult' # Null
              /\ quizResult' # quizResult
        /\ (quizResult' # Null => selectedQuiz' \in QuizTypes) ]_vars

\* the whole sequence has happened for the 'po' quiz
C3_Witness ==
    selectedQuiz = "po" /\ quizResult # Null /\ certificate.mounted

C5_DownloadOnlyOnClick ==
    [][ /\ Len(downloads') + Len(pending') <= clicks'
        /\ Len(pending') > Len(pending) =>
              (clicks' = clicks + 1 /\ certificate.mounted)
        /\ ( \/ selectedQuiz' # selectedQuiz
             \/ quizResult' # quizResult
             \/ showCertificate' # showCertificate
             \/ certificate'.userNameInput # certificate.userNameInput ) =>
              (downloads' = downloads /\ Len(pending') = Len(pending)) ]_vars

\* a download has happened, after a click
C5_Witness == Len(downloads) = 1 /\ clicks = 1

\* C6: whenever the certificate is rendered, its score and total props equal
\* the userPoints and totalPoints of the pass decision, and score/total >= 0.7
C6_PropsMatchDecision ==
    certificate.mounted =>
       /\ ScoreProp(quizResult) = UserPoints(quizResult)
       /\ TotalProp(quizResult) = TotalPoints(quizResult)
       /\ 10 * Val(ScoreProp(quizResult)) >= 7 * Val(TotalProp(quizResult))

\* a certificate is shown for a result that also carries correctAnswers,
\* different from its correctPoints
C6_Witness ==
    /\ certificate.mounted
    /\ Truthy(quizResult.correctAnswers)
    /\ quizResult.correctAnswers # quizResult.correctPoints

\* C7: no handler of the flow leaves work behind it and the flow issues no
\* network request, so no promise chain is ever in flight between two events
\* and nothing is ever fetched
C7_NoAsyncNoNetwork == pending = <<>> /\ requests = {}

\* C9: the sitemap holds exactly the default items whose URL does not contain
\* "/page/", unchanged and in the same relative order
HasPageSegment(url) ==
    \E k \in 1..(Len(url) - Len(PagePattern) + 1) :
        SubSeq(url, k, k + Len(PagePattern) - 1) = PagePattern
KeptPositions == {i \in DOMAIN defaultItems : ~HasPageSegment(defaultItems[i].url)}
C9_SitemapFilter ==
    sitemapPc = "done" =>
       /\ Len(sitemap) = Cardinality(KeptPositions)
       /\ \A i \in KeptPositions :
             sitemap[Cardinality({j \in KeptPositions : j <= i})] = defaultItems[i]

\* a sitemap from which one item was dropped and in which one was kept
C9_Witness ==
    /\ sitemapPc = "done"
    /\ Len(defaultItems) = 2
    /\ Len(sitemap) = 1
    /\ HasPageSegment(defaultItems[1].url)
    /\ Len(defaultItems[1].url) > 7

\* C10: the certificate shows the content of the name input, or the
\* placeholder 'Your Name' when it is empty; the input is empty whenever the
\* certificate mounts, so a name typed in an earlier attempt is not shown
C10_NameShown ==
    [][ /\ certificate'.mounted =>
              ShownName(certificate') =
                 IF certificate'.userNameInput = <<>>
                 THEN <<89, 111, 117, 114, 32, 78, 97, 109, 101>>
                 ELSE certificate'.userNameInput
        /\ (~certificate.mounted /\ certificate'.mounted) =>
              certificate'.userNameInput = <<>> ]_vars

\* a fresh certificate with an empty input, while an export started in the
\* previous attempt still holds the element showing the name typed then
C10_Witness ==
    /\ certificate.mounted
    /\ certificate.userNameInput = <<>>
    /\ pending # <<>>
    /\ ~pending[1].attached
    /\ pending[1].shown = <<65, 32, 66, 160, 67>>

----------------------------------------------------------------------------
\* C11: whenever the quiz widget is rendered, the quiz object and the timer
\* handed to it are those of the selected type: the starter set with 1800
\* seconds, the PO set with 3600, the full set with 7200; the timer is never
\* undefined and the data never that of another type.
C11_DataAndTimerOfType ==
    QuizRendered =>
        /\ QuizDuration(selectedQuiz) # {}
        /\ <<selectedQuiz, QuizData(selectedQuiz),
              Val(QuizDuration(selectedQuiz))>>
              \in { <<"starter", "starterQuiz", 1800>>,
                    <<"po", "poQuiz", 3600>>,
                    <<"full", "fullsetQuiz", 7200>> }

C11_Witness ==
    /\ QuizRendered
    /\ selectedQuiz = "starter"
    /\ QuizDuration(selectedQuiz) = {1800}

\* C12: in every state exactly one of the two views is shown: the menu iff
\* no quiz is selected, the quiz widget with the Back button iff one is.
C12_ExactlyOneView ==
    /\ MenuRendered <=> selectedQuiz = NullQuiz
    /\ QuizRendered <=> selectedQuiz \in QuizTypes
    /\ MenuRendered <=> ~QuizRendered

C12_Witness ==
    /\ selectedQuiz = "full"
    /\ QuizRendered
    /\ ~MenuRendered
    /\ quizResult # Null

\* C14: the divisor of the pass computation is a strictly positive number
\* for every reported result whose fields are non-negative integers or
\* missing, also when totalPoints or numberOfQuestions is 0; the numerator
\* is a number too, so the ratio is finite.
C14_DivisorPositive ==
    quizResult # Null =>
        /\ TotalPoints(quizResult) # {}
        /\ Val(TotalPoints(quizResult)) > 0
        /\ UserPoints(quizResult) # {}
        /\ Val(UserPoints(quizResult)) >= 0
        /\ showCertificate \in BOOLEAN

C14_Witness ==
    /\ quizResult # Null
    /\ quizResult.totalPoints = {0}
    /\ quizResult.numberOfQuestions = {0}
    /\ TotalPoints(quizResult) = {100}

\* C15: a completion reported while a result is already stored replaces
\* the result, and the flag and the certificate follow that latest result
\* alone: a failing one hides a certificate shown before, a passing one
\* shows it.
C15_LatestCompletionOnly ==
    [][ (quizResult # Null /\ quizResult' # Null
         /\ HandleQuizComplete(quizResult'))
        => /\ showCertificate' = WordedPass(quizResult')
           /\ certificate'.mounted = WordedPass(quizResult')
           /\ (showCertificate /\ ~WordedPass(quizResult')
                  => ~certificate'.mounted) ]_vars

C15_Witness ==
    /\ selectedQuiz # NullQuiz
    /\ quizResult # Null
    /\ ~WordedPass(quizResult)
    /\ ~certificate.mounted
    /\ ~showCertificate
    /\ requests = {FontUrl}

\* C18: typing in the name input and clicking 'Download Certificate' leave
\* the selected quiz, the stored result and the certificate flag as they
\* were, and with them the score, total and quiz title on the certificate.
C18_NameAndClickFrame ==
    [][ ((certificate.mounted /\ certificate'.mounted
            /\ certificate'.userNameInput # certificate.userNameInput)
         \/ clicks' # clicks)
        => /\ UNCHANGED <<selectedQuiz, quizResult, showCertificate>>
           /\ certificate'.mounted
           /\ ScoreProp(quizResult') = ScoreProp(quizResult)
           /\ TotalProp(quizResult') = TotalProp(quizResult)
           /\ QuizData(selectedQuiz') = QuizData(selectedQuiz) ]_vars

C18_Witness ==
    /\ certificate.mounted
    /\ certificate.userNameInput = <<65, 32, 66, 160, 67>>
    /\ clicks = 1
    /\ showCertificate
    /\ quizResult # Null

----------------------------------------------------------------------------
\* C13: whenever no quiz is selected, the stored result is null and the
\* certificate flag is false, whatever selections, completion callbacks and
\* Back clicks came before, a completion callback delivered after Back
\* included.
C13_MenuHasNoResult ==
    selectedQuiz = NullQuiz => (quizResult = Null /\ showCertificate = FALSE)

\* C16: the file a click on 'Download Certificate' produces is named
\* certificate-<name>.png, <name> being the name the certificate shows at
\* the click with each whitespace character replaced by an underscore
\* (stated for a click made while a name has been entered).
WordedFileName(name) ==
    NamePrefix
    \o [i \in DOMAIN name |-> IF name[i] \in Whitespace THEN 95 ELSE name[i]]
    \o NameSuffix

C16_FileNamedAfterShownName ==
    [][ (clicks' = clicks + 1 /\ certificate.userNameInput # <<>>)
        => DownloadName(pending'[Len(pending')].userName)
             = WordedFileName(ShownName(certificate)) ]_vars

\* C17: when the module promise and the canvas promise of every export
\* resolve, each click on 'Download Certificate' is eventually followed by
\* its download, exactly one per click, and no name edit, completion or
\* Back click in between drops an export that is under way.
C17_EveryClickDownloads ==
    /\ [][ /\ Len(downloads') + Len(pending') = clicks'
           /\ Len(downloads') >= Len(downloads)
           /\ (clicks' = clicks /\ downloads' = downloads)
                 => Len(pending') = Len(pending) ]_vars
    /\ \A n \in 1..MaxClicks : (clicks >= n) ~> (Len(downloads) >= n)

C17_Witness ==
    /\ clicks = 1
    /\ Len(downloads) = 1
    /\ pending = <<>>
    /\ selectedQuiz = NullQuiz

\* C19: the failure that takes failureCount to failureThreshold opens the
\* breaker, so a CLOSED breaker has fewer failures than the threshold;
\* while the breaker is OPEN and no more than resetTimeout has passed since
\* the last failure, a call of execute is rejected and starts no operation;
\* an operation that succeeds before the threshold is reached sets
\* failureCount to 0.
C19_OpensAndRejects ==
    [][ /\ (failureCount' = failureCount + 1
              /\ failureCount' >= failureThreshold) => state' = "OPEN"
        /\ state' = "CLOSED" => failureCount' < failureThreshold
        /\ (state = "OPEN" /\ SinceLastFailure <= resetTimeout)
              => /\ \A a \in AdmissionStates : awaiting'[a] <= awaiting[a]
                 /\ Execute => /\ lastEvent' = "rejected"
                                /\ UNCHANGED <<state, failureCount,
                                               lastFailureTime, awaiting>>
        /\ (failureCount < failureThreshold
              /\ \E a \in AdmissionStates : OperationResolves(a))
              => (failureCount' = 0 /\ state' = "CLOSED") ]_vars

C19_Witness ==
    /\ state = "OPEN"
    /\ failureCount = failureThreshold
    /\ SinceLastFailure <= resetTimeout
    /\ lastEvent = "rejected"
    /\ AwaitingTotal = 0

\* C20: a breaker that is not CLOSED becomes CLOSED only from HALF_OPEN and
\* only by the success of an operation admitted in HALF_OPEN, never by the
\* completion of an operation started before it opened; and an OPEN breaker
\* has at least failureThreshold failures.
C20_ClosesOnlyAfterTrial ==
    /\ [][ (state # "CLOSED" /\ state' = "CLOSED")
            => (state = "HALF_OPEN" /\ OperationResolves("HALF_OPEN")) ]_vars
    /\ [](state = "OPEN" => failureCount >= failureThreshold)

----------------------------------------------------------------------------
\* C21: the connections handed out and not yet released, together with the
\* connections being created, never number more than maxSize.
C21_AtMostMaxSize ==
    Cardinality(inUse) + Cardinality(Creating) <= maxSize

\* C22: release hands the connection to the longest-waiting queued call
\* that has not timed out; if there is none, the connection goes to the idle
\* pool while that holds fewer than minSize connections, and is destroyed
\* otherwise.  No connection is in use on behalf of a call that was rejected
\* with 'Connection acquire timeout'.
C22_ReleaseServesLiveWaiter ==
    /\ [][ \A connection \in inUse :
              Release(connection) =>
                LET live == SelectSeq(poolPending,
                                      LAMBDA w : acquirers[w] = "queued") IN
                  IF live # <<>>
                  THEN /\ connection \in inUse'
                       /\ givenTo'[connection] = Head(live)
                       /\ acquirers'[Head(live)] = "resolved"
                  ELSE IF Len(pool) < minSize
                  THEN pool' = Append(pool, connection)
                       /\ connection \notin inUse'
                  ELSE connection \in destroyed'
                       /\ connection \notin inUse' ]_vars
    /\ [](\A connection \in inUse :
             acquirers[givenTo[connection]] \notin TimedOutStatuses)

----------------------------------------------------------------------------
\* C23: for each client, at most maxRequests calls of isAllowed return true
\* within windowMs (the times t with now - t < windowMs); a call that finds
\* maxRequests requests in the window returns false and starts a block at
\* the time of the call; while a block is less than 5 * windowMs old every
\* call returns false, and no step, the cleanup included, removes the
\* client or moves the start of the block.
C23_WindowAndBlock ==
    [][ \A clientId \in Clients :
          /\ Len(accepted'[clientId]) <= maxRequests
          /\ IsAllowed(clientId) =>
                /\ StillBlocked(ClientOf(clientId))
                      => limiterReturned' = "false"
                /\ (~StillBlocked(ClientOf(clientId))
                      /\ Len(InWindow(ClientOf(clientId).requests))
                            >= maxRequests)
                      => /\ limiterReturned' = "false"
                         /\ clients'[clientId].blocked
                         /\ clients'[clientId].blockedAt = {now}
          /\ StillBlocked(ClientOf(clientId)) =>
                /\ clients'[clientId] # Absent
                /\ clients'[clientId].blocked
                /\ clients'[clientId].blockedAt
                      = clients[clientId].blockedAt ]_vars

C23_Witness ==
    \E clientId \in Clients :
        /\ StillBlocked(ClientOf(clientId))
        /\ clients[clientId].requests = <<>>
        /\ now - Val(clients[clientId].blockedAt) > windowMs
        /\ limiterReturned = "false"

----------------------------------------------------------------------------
\* C24: the number of stored sessions never exceeds maxSessions, whatever
\* createSession, validateSession, invalidateSession, removeSession and
\* cleanup calls were made, and also when sessions are created at the same
\* clock instant.
C24_AtMostMaxSessions == Len(sessions) <= maxSessions

----------------------------------------------------------------------------
\* C25: a set of a new key on a cache that holds maxSize entries removes
\* the least recently used entry, the one whose last get or set is oldest,
\* and no other; the cache never holds more than maxSize entries.
C25_EvictsLeastRecentlyUsed ==
    /\ [][ \A key \in Keys :
              (/\ Len(cache) >= cacheMaxSize
               /\ key \notin CacheKeys(cache)
               /\ CacheSet(key))
              => CacheKeys(cache')
                   = (CacheKeys(cache) \ {Head(recency)}) \cup {key} ]_vars
    /\ [](Len(cache) <= cacheMaxSize)

----------------------------------------------------------------------------
\* C26: a call with maxRetries >= 1 ends; toolFunction is invoked at most
\* maxRetries times; the call returns the value of the first attempt that
\* succeeds, every attempt before it having failed and none following it;
\* it throws, after maxRetries failed attempts, the error of the last one;
\* the wait after failed attempt k is 1000 * k milliseconds.
C26_RetryBoundedAndEnds ==
    /\ [](retryMax >= 1 =>
            /\ invocations <= retryMax
            /\ \A k \in DOMAIN outcomes :
                  k < Len(outcomes) => outcomes[k] \in ToolRejections
            /\ waits = [k \in 1..Len(waits) |-> 1000 * k]
            /\ retryPc = "awaitTool"
                  => (Len(outcomes) = invocations - 1
                      /\ Len(waits) = invocations - 1)
            /\ retryPc = "waiting"
                  => (Len(waits) = invocations /\ invocations < retryMax)
            /\ retryPc = "returned"
                  => /\ Len(outcomes) = invocations
                     /\ retryResult \in ToolValues
                     /\ retryResult = outcomes[Len(outcomes)]
            /\ retryPc = "threw"
                  => /\ invocations = retryMax
                     /\ Len(outcomes) = retryMax
                     /\ outcomes[retryMax] \in ToolRejections
                     /\ retryResult = outcomes[retryMax])
    /\ [][ (retryPc \in {"returned", "threw"}) => UNCHANGED retryVars ]_vars
    /\ (retryMax >= 1) ~> (retryPc \in {"returned", "threw"})

====
